---- MODULE Spec2Model ----
(***************************************************************************)
(* The NPL report pipeline of run_report.py and run_report_prefect.py:     *)
(* load_data -> clean_data -> feature_engineer -> create_report.           *)
(*                                                                         *)
(* A data frame is a record [cols, rows]: the set of its column names and  *)
(* the sequence of its rows, each row a function from cols to cells.       *)
(* A cell is a record [k, v, d, s]:                                        *)
(*   k = "num"    the number v/d (d > 0, lowest terms)                     *)
(*   k = "inf"    +infinity (v = 1) or -infinity (v = -1)                  *)
(*   k = "null"   NaN / None                                               *)
(*   k = "numstr" text that spells the decimal numeral of v                *)
(*   k = "text"   the text s, which spells no number                       *)
(*   k = "date"   a datetime64 value, the day v written YYYYMMDD           *)
(*   k = "nat"    NaT, the null of a datetime64 column                     *)
(*   k = "bool"   False (v = 0) or True (v = 1)                            *)
(***************************************************************************)
EXTENDS Integers, Sequences, FiniteSets, TLC

VARIABLES
    variant,    \* "plain" (run_report.py) or "prefect" (run_report_prefect.py)
    pc,         \* the statement of main / run_report_flow that runs next
    attempts,   \* how many times load_data has been executed
    waited,     \* seconds spent in retry delays
    df_tran, df_perf, df_merged, df_final,  \* the frames those names are bound to
    tran0, perf0, merged0,   \* history: each frame as its producer returned it
    done,       \* history: the steps completed, in order
    dashboard,  \* monthly_dashboard_<date>.png and what it shows
    error       \* the exception that ended the run, "" for none

vars == <<variant, pc, attempts, waited, df_tran, df_perf, df_merged,
          df_final, tran0, perf0, merged0, done, dashboard, error>>

----------------------------------------------------------------------------
(* Cells *)

Cell(k, v, d, s) == [k |-> k, v |-> v, d |-> d, s |-> s]
NaN == Cell("null", 0, 1, "")
NaT == Cell("nat", 0, 1, "")
Num(n) == Cell("num", n, 1, "")
NumStr(n) == Cell("numstr", n, 1, "")
Text(s) == Cell("text", 0, 1, s)
Date(n) == Cell("date", n, 1, "")
Bool(b) == Cell("bool", IF b THEN 1 ELSE 0, 1, "")
PosInf == Cell("inf", 1, 1, "")
NegInf == Cell("inf", -1, 1, "")

Abs(n) == IF n < 0 THEN -n ELSE n

RECURSIVE GCD(_, _)
GCD(a, b) == IF b = 0 THEN a ELSE GCD(b, a % b)

\* The number n/m (m # 0) in lowest terms with a positive denominator.
Frac(n, m) ==
    LET g == GCD(Abs(n), Abs(m))
        sg == IF m < 0 THEN -1 ELSE 1
    IN Cell("num", sg * (n \div g), sg * (m \div g), "")

IsNull(c) == c.k \in {"null", "nat"}
IsNumber(c) == c.k \in {"num", "inf"}

\* a < b and a <= b over numbers and infinities; False when either is NaN,
\* as every comparison with NaN is.
Lt(a, b) ==
    /\ IsNumber(a) /\ IsNumber(b)
    /\ CASE a.k = "inf" /\ b.k = "inf" -> a.v < b.v
         [] a.k = "inf" -> a.v < 0
         [] b.k = "inf" -> b.v > 0
         [] OTHER -> a.v * b.d < b.v * a.d

Le(a, b) ==
    /\ IsNumber(a) /\ IsNumber(b)
    /\ CASE a.k = "inf" /\ b.k = "inf" -> a.v <= b.v
         [] a.k = "inf" -> a.v < 0
         [] b.k = "inf" -> b.v > 0
         [] OTHER -> a.v * b.d <= b.v * a.d

\* Series / Series on float64 columns: IEEE division, which never raises.
Div(p, f) ==
    CASE ~IsNumber(p) \/ ~IsNumber(f) -> NaN
      [] p.k = "inf" /\ f.k = "inf" -> NaN
      [] p.k = "inf" -> IF f.v < 0 THEN Cell("inf", -p.v, 1, "") ELSE p
      [] f.k = "inf" -> Num(0)
      [] f.v = 0 -> IF p.v > 0 THEN PosInf ELSE IF p.v < 0 THEN NegInf ELSE NaN
      [] OTHER -> Frac(p.v * f.d, p.d * f.v)

----------------------------------------------------------------------------
(* pandas conversions, cell by cell *)

\* pd.to_numeric(..., errors='coerce')
to_numeric(c) ==
    CASE c.k \in {"num", "inf"} -> c
      [] c.k = "numstr" -> Num(c.v)
      [] c.k = "bool" -> Num(c.v)
      [] OTHER -> NaN

\* Series.fillna(value)
fillna(c, value) == IF IsNull(c) THEN value ELSE c

IsLeap(y) == (y % 4 = 0 /\ y % 100 # 0) \/ y % 400 = 0

DaysInMonth(y, m) ==
    CASE m \in {4, 6, 9, 11} -> 30
      [] m = 2 -> IF IsLeap(y) THEN 29 ELSE 28
      [] OTHER -> 31

\* An 8-digit numeral YYYYMMDD that names a day of the calendar.
ValidYMD(n) ==
    /\ n >= 10000000 /\ n <= 99999999
    /\ LET y == n \div 10000
           m == (n \div 100) % 100
           d == n % 100
       IN m \in 1..12 /\ d >= 1 /\ d <= DaysInMonth(y, m)

\* pd.to_datetime(..., format='%Y%m%d', errors='coerce')
to_datetime(c) ==
    CASE c.k \in {"date", "nat"} -> c
      [] c.k \in {"num", "numstr"} /\ c.d = 1 /\ ValidYMD(c.v) -> Date(c.v)
      [] OTHER -> NaT

RECURSIVE DaysBeforeMonth(_, _)
DaysBeforeMonth(y, m) ==
    IF m = 1 THEN 0 ELSE DaysBeforeMonth(y, m - 1) + DaysInMonth(y, m - 1)

\* The ordinal of a day (proleptic Gregorian, as datetime.toordinal).
Ordinal(n) ==
    LET y == n \div 10000
        m == (n \div 100) % 100
        d == n % 100
        p == y - 1
    IN 365 * p + p \div 4 - p \div 100 + p \div 400 + DaysBeforeMonth(y, m) + d

\* (a - b).dt.days
DaysBetween(a, b) ==
    IF a.k = "date" /\ b.k = "date" THEN Num(Ordinal(a.v) - Ordinal(b.v)) ELSE NaN

\* Series.dt.year and Series.dt.quarter
Year(a) == IF a.k = "date" THEN Num(a.v \div 10000) ELSE NaN
Quarter(a) == IF a.k = "date" THEN Num(((((a.v \div 100) % 100) - 1) \div 3) + 1) ELSE NaN

----------------------------------------------------------------------------
(* Data frames *)

NoFrame == [cols |-> {}, rows |-> <<>>]

Range(f) == {f[i] : i \in DOMAIN f}

\* df[col] = g(row): a new column, or an existing one overwritten.
Assign(df, col, g(_)) ==
    [cols |-> df.cols \cup {col},
     rows |-> [i \in DOMAIN df.rows |->
                 [c \in df.cols \cup {col} |->
                    IF c = col THEN g(df.rows[i]) ELSE df.rows[i][c]]]]

\* df.drop(columns=[col])
Drop(df, col) ==
    [cols |-> df.cols \ {col},
     rows |-> [i \in DOMAIN df.rows |-> [c \in df.cols \ {col} |-> df.rows[i][c]]]]

\* df.rename(columns={old: new})
Rename(df, old, new) ==
    LET cs == (df.cols \ {old}) \cup {new}
    IN [cols |-> cs,
        rows |-> [i \in DOMAIN df.rows |->
                    [c \in cs |-> IF c = new THEN df.rows[i][old] ELSE df.rows[i][c]]]]

RECURSIVE KeepFirst(_, _)
KeepFirst(rows, n) ==
    IF n = 0 THEN <<>>
    ELSE LET head == KeepFirst(rows, n - 1)
         IN IF \E j \in 1..(n - 1) : rows[j] = rows[n]
            THEN head ELSE Append(head, rows[n])

\* Mutant: duplicates are kept.
drop_duplicates_none(df) == df

\* df.drop_duplicates(): of rows equal in every column the first is kept.
drop_duplicates(df) == [df EXCEPT !.rows = KeepFirst(df.rows, Len(df.rows))]

\* The rows of `right` whose key equals k, in their order.
Matches(right, right_on, k) == SelectSeq(right.rows, LAMBDA r : r[right_on] = k)

\* One output row of the join: the left row l beside the right row r, or
\* beside NaN in every right column when `matched` is false.
Joined(left, right, l, r, matched) ==
    LET both == left.cols \cap right.cols
        cols == {IF c \in both THEN c \o "_x" ELSE c : c \in left.cols}
                \cup {IF c \in both THEN c \o "_y" ELSE c : c \in right.cols}
    IN [c \in cols |->
          IF \E a \in left.cols : c = (IF a \in both THEN a \o "_x" ELSE a)
          THEN l[CHOOSE a \in left.cols : c = (IF a \in both THEN a \o "_x" ELSE a)]
          ELSE IF matched
               THEN r[CHOOSE b \in right.cols : c = (IF b \in both THEN b \o "_y" ELSE b)]
               ELSE NaN]

JoinedAll(left, right, l, ms) == [j \in DOMAIN ms |-> Joined(left, right, l, ms[j], TRUE)]

\* Mutant: an inner join, which drops a left row that matches nothing.
LeftRows_inner(left, right, right_on, l, k) ==
    JoinedAll(left, right, l, Matches(right, right_on, k))

\* The rows a left join gives one left row.
LeftRows(left, right, right_on, l, k) ==
    LET ms == Matches(right, right_on, k)
    IN IF ms = <<>> THEN <<Joined(left, right, l, l, FALSE)>>
       ELSE JoinedAll(left, right, l, ms)

RECURSIVE MergeRows(_, _, _, _, _)
MergeRows(left, right, left_on, right_on, n) ==
    IF n = 0 THEN <<>>
    ELSE MergeRows(left, right, left_on, right_on, n - 1)
         \o LeftRows(left, right, right_on, left.rows[n], left.rows[n][left_on])

\* pd.merge(left, right, left_on=..., right_on=..., how='left')
merge(left, right, left_on, right_on) ==
    LET both == left.cols \cap right.cols
    IN [cols |-> {IF c \in both THEN c \o "_x" ELSE c : c \in left.cols}
                 \cup {IF c \in both THEN c \o "_y" ELSE c : c \in right.cols},
        rows |-> MergeRows(left, right, left_on, right_on, Len(left.rows))]

----------------------------------------------------------------------------
(* clean_data *)

DateCols == <<"FRPDATE", "FNPLFDTE", "FORDATE", "FMATDATE">>

ParseColumn(df, col) == Assign(df, col, LAMBDA row : to_datetime(row[col]))

\* run_report.py: the four date columns are parsed one statement after the
\* other, each in place; the first absent one raises KeyError and leaves the
\* columns before it parsed.
RECURSIVE ParseDatesPlain(_, _)
ParseDatesPlain(df, i) ==
    IF i > Len(DateCols) THEN [df |-> df, ok |-> TRUE]
    ELSE IF DateCols[i] \notin df.cols THEN [df |-> df, ok |-> FALSE]
    ELSE ParseDatesPlain(ParseColumn(df, DateCols[i]), i + 1)

\* run_report_prefect.py: a date column is parsed only if it is there.
RECURSIVE ParseDatesGuarded(_, _)
ParseDatesGuarded(df, i) ==
    IF i > Len(DateCols) THEN [df |-> df, ok |-> TRUE]
    ELSE IF DateCols[i] \notin df.cols THEN ParseDatesGuarded(df, i + 1)
    ELSE ParseDatesGuarded(ParseColumn(df, DateCols[i]), i + 1)

ParseDates(v, df) ==
    IF v = "plain" THEN ParseDatesPlain(df, 1) ELSE ParseDatesGuarded(df, 1)

\* The FRPDATE collision of the join: the transaction side keeps the name,
\* the performance side is dropped.
ResolveCollision(df) ==
    LET a == IF "FRPDATE_x" \in df.cols THEN Rename(df, "FRPDATE_x", "FRPDATE") ELSE df
    IN IF "FRPDATE_y" \in a.cols THEN Drop(a, "FRPDATE_y") ELSE a

\* FDPDUE00 coerced to a number with nulls filled by 0, or created as 0.
FillMissing(df) ==
    IF "FDPDUE00" \in df.cols
    THEN Assign(df, "FDPDUE00", LAMBDA row : fillna(to_numeric(row["FDPDUE00"]), Num(0)))
    ELSE Assign(df, "FDPDUE00", LAMBDA row : Num(0))

\* What clean_data(df_tran, df_perf) does: tran is df_tran as the call leaves
\* it, merged the returned frame, error the exception raised ("" for none).
clean_data(v, tran, perf) ==
    LET parsed == ParseDates(v, tran)
        dedup == drop_duplicates(parsed.df)
    IN IF ~parsed.ok
       THEN [tran |-> parsed.df, merged |-> NoFrame, error |-> "KeyError"]
       ELSE IF "FCUSNO" \notin dedup.cols \/ "CIF" \notin perf.cols
       THEN [tran |-> dedup, merged |-> NoFrame, error |-> "KeyError"]
       ELSE [tran |-> dedup,
             merged |-> FillMissing(ResolveCollision(merge(dedup, perf, "FCUSNO", "CIF"))),
             error |-> ""]

----------------------------------------------------------------------------
(* feature_engineer *)

stage_map == (1 :> "1. Performing") @@ (2 :> "2. Under-performing") @@ (3 :> "3. NPL")

\* Series.map(stage_map): NaN for a value that is no key of the dict.
MapStage(c) ==
    IF c.k = "num" /\ c.d = 1 /\ c.v \in DOMAIN stage_map
    THEN Text(stage_map[c.v]) ELSE NaN

\* Mutant: the unmapped stage codes are left null.
Stage_Name_nofill(c) == MapStage(c)

Stage_Name(c) == fillna(MapStage(c), Text("0. Unknown"))

\* Mutant: >= 0 for > 0.
Is_Overdue_nonneg(c) == Bool(Le(Num(0), c))

Is_Overdue(c) == Bool(Lt(Num(0), c))

bins == <<Num(-1), Num(0), Num(30), Num(60), Num(90), PosInf>>
labels == <<"0. No DPD", "1. 1-30 Days", "2. 31-60 Days", "3. 61-90 Days", "4. 90+ Days">>

\* Mutant: right=False, the intervals [bins[i], bins[i+1]).
cut_left_closed(x) ==
    LET hit == {i \in 1..(Len(bins) - 1) : Le(bins[i], x) /\ Lt(x, bins[i + 1])}
    IN IF hit = {} THEN NaN ELSE Text(labels[CHOOSE i \in hit : TRUE])

\* pd.cut(x, bins=bins, labels=labels, right=True): the label of the
\* interval (bins[i], bins[i+1]] that holds x, NaN when none does.
cut(x) ==
    LET hit == {i \in 1..(Len(bins) - 1) : Lt(bins[i], x) /\ Le(x, bins[i + 1])}
    IN IF hit = {} THEN NaN ELSE Text(labels[CHOOSE i \in hit : TRUE])

\* Mutant: only a zero facility amount is guarded.
Debt_to_Limit_Ratio_nonzero(princ, fac) ==
    IF fac # Num(0) THEN Div(princ, fac) ELSE NaN

\* np.where(FFLGBWFW > 0, FPRINCAM / FFLGBWFW, np.nan)
Debt_to_Limit_Ratio(princ, fac) == IF Lt(Num(0), fac) THEN Div(princ, fac) ELSE NaN

\* A column of dtype datetime64, which the date arithmetic and .dt need.
IsDatetime(df, col) ==
    col \in df.cols /\ \A i \in DOMAIN df.rows : df.rows[i][col].k \in {"date", "nat"}

FESteps == <<"Stage_Name", "Is_Overdue", "DPD_Bucket", "FFLGBWFW", "FPRINCAM",
             "Debt_to_Limit_Ratio", "Loan_Age_Days", "Remaining_Tenor_Days",
             "Loan_Orig_Year", "Loan_Orig_Quarter">>

\* Whether the statement that assigns column st runs without raising.
StepRuns(df, st) ==
    CASE st = "Stage_Name" -> "STAGE_CIF" \in df.cols
      [] st \in {"Is_Overdue", "DPD_Bucket"} -> "FDPDUE00" \in df.cols
      [] st \in {"FFLGBWFW", "FPRINCAM"} -> st \in df.cols
      [] st = "Debt_to_Limit_Ratio" -> TRUE
      [] st = "Loan_Age_Days" -> IsDatetime(df, "FRPDATE") /\ IsDatetime(df, "FORDATE")
      [] st = "Remaining_Tenor_Days" -> IsDatetime(df, "FMATDATE") /\ IsDatetime(df, "FRPDATE")
      [] OTHER -> IsDatetime(df, "FORDATE")

\* The statement that assigns column st, in place.
Step(df, st) ==
    CASE st = "Stage_Name" -> Assign(df, st, LAMBDA r : Stage_Name(r["STAGE_CIF"]))
      [] st = "Is_Overdue" -> Assign(df, st, LAMBDA r : Is_Overdue(r["FDPDUE00"]))
      [] st = "DPD_Bucket" -> Assign(df, st, LAMBDA r : cut(r["FDPDUE00"]))
      [] st = "FFLGBWFW" -> Assign(df, st, LAMBDA r : to_numeric(r["FFLGBWFW"]))
      [] st = "FPRINCAM" -> Assign(df, st, LAMBDA r : to_numeric(r["FPRINCAM"]))
      [] st = "Debt_to_Limit_Ratio" ->
           Assign(df, st, LAMBDA r : Debt_to_Limit_Ratio(r["FPRINCAM"], r["FFLGBWFW"]))
      [] st = "Loan_Age_Days" ->
           Assign(df, st, LAMBDA r : DaysBetween(r["FRPDATE"], r["FORDATE"]))
      [] st = "Remaining_Tenor_Days" ->
           Assign(df, st, LAMBDA r : DaysBetween(r["FMATDATE"], r["FRPDATE"]))
      [] st = "Loan_Orig_Year" -> Assign(df, st, LAMBDA r : Year(r["FORDATE"]))
      [] OTHER -> Assign(df, st, LAMBDA r : Quarter(r["FORDATE"]))

\* What feature_engineer(df_merged) does: its statements in order, each
\* assigning a column of df_merged in place, up to the first that raises.
RECURSIVE RunSteps(_, _)
RunSteps(df, i) ==
    IF i > Len(FESteps) THEN [df |-> df, ok |-> TRUE]
    ELSE IF ~StepRuns(df, FESteps[i]) THEN [df |-> df, ok |-> FALSE]
    ELSE RunSteps(Step(df, FESteps[i]), i + 1)

feature_engineer(df) == RunSteps(df, 1)

----------------------------------------------------------------------------
(* create_report *)

\* df_npl_90 = df[df['FDPDUE00'] > 90]
df_npl_90(df) == SelectSeq(df.rows, LAMBDA r : Lt(Num(90), r["FDPDUE00"]))

\* The aggregation and the four charts need these columns.
ChartsBuild(df) == {"Stage_Name", "FPRINCAM", "FPRODTY", "FDPDUE00"} \subseteq df.cols


\* One number cell plus another (a sum skips NaN).
Plus(a, b) ==
    IF ~IsNumber(b) THEN a
    ELSE IF a.k = "inf" THEN a
    ELSE IF b.k = "inf" THEN b
    ELSE Frac(a.v * b.d + b.v * a.d, a.d * b.d)

RECURSIVE SumColumn(_, _, _)
SumColumn(rows, col, n) ==
    IF n = 0 THEN Num(0) ELSE Plus(SumColumn(rows, col, n - 1), rows[n][col])

\* df.groupby('Stage_Name')['FPRINCAM'].agg(['sum', 'mean', 'count'])
report_by_stage(df) ==
    LET groups == {df.rows[i]["Stage_Name"].s : i \in DOMAIN df.rows}
        of(g) == SelectSeq(df.rows, LAMBDA r : r["Stage_Name"].s = g)
        valid(g) == SelectSeq(of(g), LAMBDA r : IsNumber(r["FPRINCAM"]))
    IN [g \in groups |->
          [sum |-> SumColumn(of(g), "FPRINCAM", Len(of(g))),
           mean |-> Div(SumColumn(of(g), "FPRINCAM", Len(of(g))), Num(Len(valid(g)))),
           count |-> Len(valid(g))]]

NoDashboard == [file |-> "none", by_stage |-> <<>>, npl90 |-> <<>>]

----------------------------------------------------------------------------
(* The runs *)

retries == 3
retry_delay_seconds == 10

\* Mutant: one retry more.
Retries_plus_one(v) == IF v = "prefect" THEN retries + 1 ELSE 0

\* The retries the orchestrator grants load_data: none in run_report.py.
Retries(v) == IF v = "prefect" THEN retries ELSE 0

Init ==
    /\ variant \in {"plain", "prefect"}
    /\ pc = "load_data"
    /\ attempts = 0
    /\ waited = 0
    /\ df_tran = NoFrame /\ df_perf = NoFrame /\ df_merged = NoFrame /\ df_final = NoFrame
    /\ tran0 = NoFrame /\ perf0 = NoFrame /\ merged0 = NoFrame
    /\ done = <<>>
    /\ dashboard = NoDashboard
    /\ error = ""

Order == <<"load_data", "clean_data", "feature_engineer", "create_report", "finished">>

\* Mutant: the exception is swallowed and the run goes on to the next stage.
Fail_swallowed(e) ==
    /\ error' = e
    /\ pc' = Order[(CHOOSE i \in DOMAIN Order : Order[i] = pc) + 1]

\* An exception no one catches ends the run.
Fail(e) == pc' = "failed" /\ error' = e

\* load_data reads both files (column names are taken as already stripped).
LoadOk(inputs) ==
    /\ pc = "load_data"
    /\ \E in \in inputs :
         /\ df_tran' = in.tran /\ tran0' = in.tran
         /\ df_perf' = in.perf /\ perf0' = in.perf
    /\ attempts' = attempts + 1
    /\ pc' = "clean_data"
    /\ done' = Append(done, "load_data")
    /\ UNCHANGED <<variant, waited, df_merged, df_final, merged0, dashboard, error>>

\* load_data raises (a file is absent or unreadable); the orchestrator runs
\* it again after the delay while retries are left.
LoadFail ==
    /\ pc = "load_data"
    /\ attempts' = attempts + 1
    /\ IF attempts < Retries(variant)
       THEN /\ waited' = waited + retry_delay_seconds
            /\ UNCHANGED <<pc, error>>
       ELSE /\ Fail("FileNotFoundError")
            /\ UNCHANGED waited
    /\ UNCHANGED <<variant, df_tran, df_perf, df_merged, df_final, tran0, perf0,
                   merged0, done, dashboard>>

CleanOk ==
    /\ pc = "clean_data"
    /\ LET r == clean_data(variant, df_tran, df_perf)
       IN /\ r.error = ""
          /\ df_tran' = r.tran
          /\ df_merged' = r.merged /\ merged0' = r.merged
    /\ pc' = "feature_engineer"
    /\ done' = Append(done, "clean_data")
    /\ UNCHANGED <<variant, attempts, waited, df_perf, df_final, tran0, perf0,
                   dashboard, error>>

CleanFail ==
    /\ pc = "clean_data"
    /\ LET r == clean_data(variant, df_tran, df_perf)
       IN /\ r.error # ""
          /\ df_tran' = r.tran
          /\ Fail(r.error)
    /\ UNCHANGED <<variant, attempts, waited, df_perf, df_merged, df_final, tran0,
                   perf0, merged0, done, dashboard>>

\* feature_engineer returns the frame it was given: df_final is df_merged.
FeatureOk ==
    /\ pc = "feature_engineer"
    /\ LET r == feature_engineer(df_merged)
       IN /\ r.ok
          /\ df_merged' = r.df /\ df_final' = r.df
    /\ pc' = "create_report"
    /\ done' = Append(done, "feature_engineer")
    /\ UNCHANGED <<variant, attempts, waited, df_tran, df_perf, tran0, perf0,
                   merged0, dashboard, error>>

FeatureFail ==
    /\ pc = "feature_engineer"
    /\ LET r == feature_engineer(df_merged)
       IN /\ ~r.ok
          /\ df_merged' = r.df
    /\ Fail("KeyError")
    /\ UNCHANGED <<variant, attempts, waited, df_tran, df_perf, df_final, tran0,
                   perf0, merged0, done, dashboard>>

\* create_report aggregates, builds the four charts and saves the figure.
ReportOk ==
    /\ pc = "create_report"
    /\ ChartsBuild(df_final)
    /\ dashboard' = [file |-> "complete",
                     by_stage |-> report_by_stage(df_final),
                     npl90 |-> df_npl_90(df_final)]
    /\ pc' = "finished"
    /\ done' = done \o <<"charts", "savefig">>
    /\ UNCHANGED <<variant, attempts, waited, df_tran, df_perf, df_merged, df_final,
                   tran0, perf0, merged0, error>>

\* The aggregation or a chart raises: a column it needs is absent.
ChartFail ==
    /\ pc = "create_report"
    /\ ~ChartsBuild(df_final)
    /\ Fail("ValueError")
    /\ UNCHANGED <<variant, attempts, waited, df_tran, df_perf, df_merged, df_final,
                   tran0, perf0, merged0, done, dashboard>>

\* plt.savefig raises (the disk): the file may have been created already.
SaveFail ==
    /\ pc = "create_report"
    /\ ChartsBuild(df_final)
    /\ \E f \in {"none", "partial"} :
         dashboard' = [file |-> f,
                       by_stage |-> report_by_stage(df_final),
                       npl90 |-> df_npl_90(df_final)]
    /\ Fail("OSError")
    /\ done' = Append(done, "charts")
    /\ UNCHANGED <<variant, attempts, waited, df_tran, df_perf, df_merged, df_final,
                   tran0, perf0, merged0>>

----------------------------------------------------------------------------
(* The files a run may find *)

MaxRows == 2       \* rows of the transaction file
MaxPerfRows == 2   \* rows of the performance sheet

TranRequired == {"FCUSNO", "FPRINCAM", "FFLGBWFW"}
TranOptional == Range(DateCols) \cup {"FDPDUE00", "FPRODTY"}
PerfRequired == {"CIF", "STAGE_CIF"}
PerfOptional == {"FRPDATE", "FDPDUE00"}

TranRow(cus, prod, princ, fac, dpd, rp, npl, orig, mat) ==
    [FCUSNO |-> cus, FPRODTY |-> prod, FPRINCAM |-> princ, FFLGBWFW |-> fac,
     FDPDUE00 |-> dpd, FRPDATE |-> rp, FNPLFDTE |-> npl, FORDATE |-> orig,
     FMATDATE |-> mat]

PerfRow(cif, stage, rp, dpd) ==
    [CIF |-> cif, STAGE_CIF |-> stage, FRPDATE |-> rp, FDPDUE00 |-> dpd]

TranSamples ==
    { TranRow(Num(1), Text("A"), Num(100), Num(0), Num(45),
              Num(20240115), NaN, Num(20200115), Num(20250115)),
      TranRow(Num(2), Text("B"), NumStr(50), Num(200), Text("N/A"),
              Num(20240115), Num(20231301), NumStr(20200229), Text("n/a")),
      TranRow(Num(3), Text("A"), NaN, Num(400), NaN,
              Num(20240115), NaN, Num(20210229), Num(20300101)),
      TranRow(Num(1), Text("B"), Num(300), Num(400), Num(91),
              Num(20240115), Num(20231001), Num(20190630), Num(20240630)) }

PerfSamples ==
    { PerfRow(Num(1), Num(1), Num(20240131), Num(7)),
      PerfRow(Num(2), Num(3), Num(20240131), NaN),
      PerfRow(Num(1), Num(2), Num(20240131), Num(0)) }

SeqsUpTo(S, lo, hi) == UNION {[1..n -> S] : n \in lo..hi}

Restrict(row, cols) == [c \in cols |-> row[c]]

Frame(cols, rows) == [cols |-> cols, rows |-> [i \in DOMAIN rows |-> Restrict(rows[i], cols)]]

\* Files with every column, of up to MaxRows and MaxPerfRows rows.
RowInputs ==
    { [tran |-> Frame(TranRequired \cup TranOptional, trows),
       perf |-> Frame(PerfRequired, prows)] :
        trows \in SeqsUpTo(TranSamples, 1, MaxRows),
        prows \in SeqsUpTo(PerfSamples, 0, MaxPerfRows) }

\* Files of one transaction each, where the transaction file lacks one of its
\* optional columns or none, and the sheet has any of its optional columns.
ColumnInputs ==
    { [tran |-> Frame(TranRequired \cup (TranOptional \ absent), <<t>>),
       perf |-> Frame(PerfRequired \cup extra, prows)] :
        absent \in {{}} \cup {{c} : c \in TranOptional},
        t \in TranSamples,
        extra \in SUBSET PerfOptional,
        prows \in SeqsUpTo(PerfSamples, 1, 1) }

DpdValues ==
    { NegInf, Num(-2), Num(-1), Frac(-1, 2), Num(0), Frac(1, 2), Num(1), Num(30),
      Frac(61, 2), Num(31), Num(60), Num(61), Num(90), Frac(181, 2), Num(91),
      Num(1000), PosInf, NumStr(91), Text("N/A"), NaN }
FacilityValues == { NaN, Text("-"), Num(-5), Num(0), Frac(1, 2), Num(4), NumStr(8) }
PrincipalValues == { NaN, Text("x"), Num(-8), Num(0), Num(100), NumStr(6) }
StageValues ==
    { NaN, Num(-1), Num(0), Num(1), Num(2), Num(3), Num(4), Frac(3, 2), NumStr(1),
      Text("NPL") }

ValueRow(princ, fac, dpd) ==
    TranRow(Num(1), Text("A"), princ, fac, dpd, Num(20240115), NaN, Num(20200115),
            Num(20250115))

ValueFrames(trows, stage) ==
    [tran |-> Frame(TranRequired \cup TranOptional, trows),
     perf |-> Frame(PerfRequired, <<PerfRow(Num(1), stage, NaN, NaN)>>)]

\* Files of one customer and one or two transactions, over the values of one
\* field: two days-past-due values, a principal and a facility, a stage.
ValueInputs ==
    {ValueFrames(<<ValueRow(Num(100), Num(400), a), ValueRow(Num(100), Num(400), b)>>,
                 Num(1)) : a \in DpdValues, b \in DpdValues}
    \cup {ValueFrames(<<ValueRow(princ, fac, Num(0))>>, Num(1)) :
            princ \in PrincipalValues, fac \in FacilityValues}
    \cup {ValueFrames(<<ValueRow(Num(100), Num(400), Num(0))>>, stage) :
            stage \in StageValues}

PipelineInputs == RowInputs \cup ColumnInputs \cup ValueInputs

Next ==
    \/ LoadOk(PipelineInputs)
    \/ LoadFail
    \/ CleanOk
    \/ CleanFail
    \/ FeatureOk
    \/ FeatureFail
    \/ ReportOk
    \/ ChartFail
    \/ SaveFail

Spec == Init /\ [][Next]_vars

----------------------------------------------------------------------------
(* Properties *)

Loaded == "load_data" \in Range(done)
Cleaned == "clean_data" \in Range(done)
Engineered == "feature_engineer" \in Range(done)

FinalRows == {df_final.rows[i] : i \in DOMAIN df_final.rows}

LabelOrdinal(s) == CHOOSE i \in DOMAIN labels : labels[i] = s
HasLabel(r) == r["DPD_Bucket"].k = "text" /\ r["DPD_Bucket"].s \in Range(labels)

\* The fixed points the claim names: 0, 30, 60 and 90 end a bucket.
BucketEnds(r) ==
    /\ r["FDPDUE00"] = Num(0) => r["DPD_Bucket"].s = "0. No DPD"
    /\ r["FDPDUE00"] = Num(30) => r["DPD_Bucket"].s = "1. 1-30 Days"
    /\ r["FDPDUE00"] = Num(60) => r["DPD_Bucket"].s = "2. 31-60 Days"
    /\ r["FDPDUE00"] = Num(90) => r["DPD_Bucket"].s = "3. 61-90 Days"

BucketOrder(covered(_)) ==
    \A r1 \in FinalRows, r2 \in FinalRows :
       covered(r1) /\ covered(r2) /\ Le(r1["FDPDUE00"], r2["FDPDUE00"])
          => LabelOrdinal(r1["DPD_Bucket"].s) <= LabelOrdinal(r2["DPD_Bucket"].s)

\* C1 as stated: every row of the feature-engineered data whose FDPDUE00 is a
\* number has one of the five labels as DPD_Bucket, never null, labels are
\* ordered as the numbers are, and 0, 30, 60, 90 fall in the bucket they end.
C1_EveryNumberBucketed ==
    Engineered =>
       /\ \A r \in FinalRows : IsNumber(r["FDPDUE00"]) => HasLabel(r) /\ BucketEnds(r)
       /\ BucketOrder(LAMBDA r : IsNumber(r["FDPDUE00"]))

\* C1 amended: every row whose FDPDUE00 is a number greater than -1 has one
\* of the five labels as DPD_Bucket, labels are ordered as the numbers are,
\* and 0, 30, 60, 90 fall in the bucket they end; a number of -1 or less has
\* a null DPD_Bucket.
C1_AboveMinusOneBucketed ==
    Engineered =>
       /\ \A r \in FinalRows :
            /\ Lt(Num(-1), r["FDPDUE00"]) => HasLabel(r) /\ BucketEnds(r)
            /\ Le(r["FDPDUE00"], Num(-1)) => r["DPD_Bucket"] = NaN
       /\ BucketOrder(LAMBDA r : Lt(Num(-1), r["FDPDUE00"]))

C1_Witness ==
    /\ Engineered
    /\ \E r1 \in FinalRows, r2 \in FinalRows :
         /\ r1["FDPDUE00"] = Num(30) /\ r1["DPD_Bucket"].s = "1. 1-30 Days"
         /\ r2["FDPDUE00"] = Num(31) /\ r2["DPD_Bucket"].s = "2. 31-60 Days"


\* C2: a row whose facility amount FFLGBWFW, coerced to a number, is null,
\* zero or negative has a null Debt_to_Limit_Ratio; a row whose FFLGBWFW is
\* positive has FPRINCAM / FFLGBWFW, null when FPRINCAM is null.
C2_RatioNullOrQuotient ==
    Engineered =>
       /\ \A r \in FinalRows :
            LET f == r["FFLGBWFW"]
                p == r["FPRINCAM"]
                q == r["Debt_to_Limit_Ratio"]
            IN /\ f.k \in {"num", "null"} /\ p.k \in {"num", "null"}
               /\ ~Lt(Num(0), f) => q = NaN
               /\ Lt(Num(0), f) /\ p = NaN => q = NaN
               /\ Lt(Num(0), f) /\ p # NaN =>
                    q.k = "num" /\ q.d > 0 /\ q.v * f.v * p.d = p.v * f.d * q.d
       /\ \A i \in DOMAIN df_final.rows :
            merged0.rows[i]["FFLGBWFW"].k \in {"null", "text"}
               => df_final.rows[i]["Debt_to_Limit_Ratio"] = NaN

C2_Witness ==
    /\ Engineered
    /\ \E r \in FinalRows :
         /\ r["FFLGBWFW"] = Num(0) /\ r["FPRINCAM"] = Num(100)
         /\ r["Debt_to_Limit_Ratio"] = NaN

KeysUnique(perf) ==
    \A i \in DOMAIN perf.rows, j \in DOMAIN perf.rows :
       i # j => perf.rows[i]["CIF"] # perf.rows[j]["CIF"]

Unmatched(k) == \A j \in DOMAIN perf0.rows : perf0.rows[j]["CIF"] # k

\* C3: when the CIF values of the performance data are pairwise distinct, the
\* merged data has one row per de-duplicated transaction row, in order, and a
\* transaction whose FCUSNO matches no CIF is kept with null performance
\* fields.
C3_JoinKeepsRowCount ==
    Cleaned /\ KeysUnique(perf0) =>
       /\ Len(merged0.rows) = Len(df_tran.rows)
       /\ \A i \in DOMAIN merged0.rows :
            /\ i \in DOMAIN df_tran.rows
            /\ merged0.rows[i]["FCUSNO"] = df_tran.rows[i]["FCUSNO"]
            /\ Unmatched(merged0.rows[i]["FCUSNO"]) =>
                 merged0.rows[i]["CIF"] = NaN /\ merged0.rows[i]["STAGE_CIF"] = NaN

C3_Witness ==
    /\ Cleaned /\ KeysUnique(perf0)
    /\ Len(perf0.rows) = 2 /\ Len(merged0.rows) = 2
    /\ \E i \in DOMAIN merged0.rows : Unmatched(merged0.rows[i]["FCUSNO"])
    /\ \E i \in DOMAIN merged0.rows : ~Unmatched(merged0.rows[i]["FCUSNO"])

StageLabels == {"1. Performing", "2. Under-performing", "3. NPL", "0. Unknown"}

\* C4: every row has one of the four stage labels as Stage_Name: STAGE_CIF 1,
\* 2, 3 give '1. Performing', '2. Under-performing', '3. NPL', and every
\* other value, null included, gives '0. Unknown'.
C4_StageLabelTotal ==
    Engineered =>
       \A r \in FinalRows :
          /\ r["Stage_Name"].k = "text" /\ r["Stage_Name"].s \in StageLabels
          /\ r["STAGE_CIF"] = Num(1) => r["Stage_Name"].s = "1. Performing"
          /\ r["STAGE_CIF"] = Num(2) => r["Stage_Name"].s = "2. Under-performing"
          /\ r["STAGE_CIF"] = Num(3) => r["Stage_Name"].s = "3. NPL"
          /\ r["STAGE_CIF"] \notin {Num(1), Num(2), Num(3)}
               => r["Stage_Name"].s = "0. Unknown"

C4_Witness ==
    /\ Engineered
    /\ \E r \in FinalRows : r["STAGE_CIF"] = NaN /\ r["Stage_Name"].s = "0. Unknown"

\* The number a raw days-past-due value stands for, 0 when it stands for none.
DpdNumber(c) ==
    CASE c.k \in {"num", "inf"} -> c
      [] c.k = "numstr" -> Num(c.v)
      [] OTHER -> Num(0)

\* C5: after clean_data every row of the merged data has a number as FDPDUE00,
\* and when the transaction input has the FDPDUE00 field, the number is the
\* one a transaction of that customer carries (0 only for a value that is
\* missing or no number).
C5_DpdKeptOrZero ==
    Cleaned =>
       /\ \A i \in DOMAIN merged0.rows : IsNumber(merged0.rows[i]["FDPDUE00"])
       /\ "FDPDUE00" \in tran0.cols =>
            \A i \in DOMAIN merged0.rows :
               \E j \in DOMAIN tran0.rows :
                  /\ tran0.rows[j]["FCUSNO"] = merged0.rows[i]["FCUSNO"]
                  /\ merged0.rows[i]["FDPDUE00"] = DpdNumber(tran0.rows[j]["FDPDUE00"])

\* C6: clean_data given a transaction input that lacks some of the four date
\* fields raises nothing: it returns the merged data, with the date fields
\* that are there parsed, in both variants.
C6_AbsentDatesSkipped ==
    Loaded /\ pc # "clean_data" /\ "FCUSNO" \in tran0.cols /\ "CIF" \in perf0.cols =>
       /\ Cleaned
       /\ \A i \in DOMAIN DateCols :
            DateCols[i] \in tran0.cols => IsDatetime(df_tran, DateCols[i])

Steps == <<"load_data", "clean_data", "feature_engineer", "charts", "savefig">>

\* C7: the dashboard file exists only once load_data, clean_data,
\* feature_engineer and the aggregation and charts have completed, in that
\* order; the steps complete in the pipeline's order only, a failure ends the
\* run, and a run that failed before the charts were built has no file.
C7_NoArtifactOnFailure ==
    /\ Len(done) <= Len(Steps) /\ done = SubSeq(Steps, 1, Len(done))
    /\ dashboard.file # "none" => Len(done) >= 4
    /\ dashboard.file = "complete" <=> pc = "finished"
    /\ error # "" <=> pc = "failed"
    /\ pc = "failed" /\ Len(done) < 4 => dashboard.file = "none"
    /\ pc # "failed" => pc = Order[IF Len(done) >= 4 THEN 5 ELSE Len(done) + 1]

C7_Witness ==
    /\ pc = "finished" /\ dashboard.file = "complete"
    /\ done = Steps

\* C8 as stated: load_data is executed at most 3 times in one run.
C8_AtMostThreeAttempts == attempts <= 3

\* C8 amended: in run_report_flow load_data is executed at most 4 times in one
\* run, the first attempt and up to 3 retries, with 10 seconds between
\* consecutive attempts; the run fails at load_data only after the 4th attempt
\* has failed, and no attempt follows one that succeeded.
C8_AtMostFourAttempts ==
    variant = "prefect" =>
       /\ attempts <= 4
       /\ pc = "failed" /\ ~Loaded => attempts = 4
       /\ pc = "load_data" => ~Loaded /\ waited = 10 * attempts
       /\ pc # "load_data" => waited = 10 * (attempts - 1)
       /\ Len(SelectSeq(done, LAMBDA st : st = "load_data")) <= 1

C8_Witness == variant = "prefect" /\ pc = "failed" /\ ~Loaded /\ attempts = 4

NoDuplicates(rows) ==
    \A i \in DOMAIN rows, j \in DOMAIN rows : i # j => rows[i] # rows[j]

\* C9 as stated: clean_data leaves the transactions and the performance data
\* passed to it as they were, and feature_engineer leaves the merged data
\* passed to it as it was.
C9_InputsUnchanged ==
    /\ Loaded /\ pc # "clean_data" => df_tran = tran0 /\ df_perf = perf0
    /\ Cleaned /\ pc # "feature_engineer" => df_merged = merged0

\* C9 amended: clean_data leaves the performance data as it was and changes
\* the transactions in place (the date fields that are there become parsed
\* dates, duplicate rows are removed, no column is added or removed);
\* feature_engineer adds the derived columns to the merged data passed to it,
\* in place, and returns that same data.
C9_OnlyPerformanceUnchanged ==
    /\ Loaded /\ pc # "clean_data" =>
         /\ df_perf = perf0
         /\ df_tran.cols = tran0.cols
         /\ Len(df_tran.rows) <= Len(tran0.rows)
    /\ Cleaned =>
         /\ NoDuplicates(df_tran.rows)
         /\ \A i \in DOMAIN DateCols :
              DateCols[i] \in df_tran.cols => IsDatetime(df_tran, DateCols[i])
    /\ Engineered =>
         /\ df_final = df_merged
         /\ df_merged.cols = merged0.cols \cup Range(FESteps)
         /\ Len(df_merged.rows) = Len(merged0.rows)

C9_Witness ==
    /\ Engineered
    /\ Len(df_tran.rows) < Len(tran0.rows)
    /\ df_merged.cols # merged0.cols
    /\ df_perf = perf0 /\ Len(perf0.rows) > 0

Overdue == {"1. 1-30 Days", "2. 31-60 Days", "3. 61-90 Days", "4. 90+ Days"}

\* C10: Is_Overdue is true exactly for the rows whose DPD_Bucket is one of
\* the four overdue labels, and the rows of the 90+ days-past-due view are
\* exactly those whose DPD_Bucket is '4. 90+ Days'.
C10_DpdViewsAgree ==
    /\ Engineered =>
         \A r \in FinalRows :
            /\ r["Is_Overdue"] \in {Bool(TRUE), Bool(FALSE)}
            /\ r["Is_Overdue"] = Bool(TRUE) <=> r["DPD_Bucket"].s \in Overdue
    /\ "charts" \in Range(done) =>
         \A r \in FinalRows :
            r \in Range(dashboard.npl90) <=> r["DPD_Bucket"].s = "4. 90+ Days"

C10_Witness ==
    /\ pc = "finished"
    /\ \E r1 \in FinalRows, r2 \in FinalRows :
         /\ r1["FDPDUE00"] = Num(90) /\ r1["Is_Overdue"] = Bool(TRUE)
         /\ r1["DPD_Bucket"].s = "3. 61-90 Days" /\ r1 \notin Range(dashboard.npl90)
         /\ r2["FDPDUE00"] = Num(91) /\ r2["DPD_Bucket"].s = "4. 90+ Days"
         /\ r2 \in Range(dashboard.npl90)

====
